---- MODULE Spec2Model ----
\* Verification model of sentencepiece's Normalizer (normalizer.cc, found in
\* src/sentencepiece/model_factory.h lines 32-289), its PrecompiledCharsMap
\* codec, and character::Trainer::Train (char_model_trainer.cc).
\*
\* Strings are sequences of byte values 0..255.  Offsets into strings keep the
\* code's 0-based convention; TLA+ sequences are 1-based, so byte at offset o of
\* s is s[o + 1].
EXTENDS Integers, Sequences, FiniteSets, TLC

\* ---------------------------------------------------------------- bounds
MaxTokens == 4        \* an input is a concatenation of at most MaxTokens tokens
MaxPasses == 2        \* Normalize calls chained on one Normalizer (output fed back)
MaxBlobLen == 2       \* longest trie_blob / normalized argument given to Encode
MaxVocab == 2         \* largest vocab_size / number of meta pieces of the trainer

\* ---------------------------------------------------------------- bytes
Drop(s, n) == SubSeq(s, n + 1, Len(s))

Take(s, n) == SubSeq(s, 1, n)

\* U+2581 LOWER ONE EIGHTH BLOCK, "\xe2\x96\x81"
kSpaceSymbol == <<226, 150, 129>>

\* U+FFFD REPLACEMENT CHARACTER, "\xEF\xBF\xBD"
kReplacementChar == <<239, 191, 189>>

\* string_util::EndsWith
EndsWith(s, suffix) ==
  /\ Len(s) >= Len(suffix)
  /\ SubSeq(s, Len(s) - Len(suffix) + 1, Len(s)) = suffix

\* string_util::ConsumePrefix applied until it fails, with expected = " "
\* (the body-less while loop of Normalize).
RECURSIVE ConsumeSpaces(_)
ConsumeSpaces(sp) ==
  IF sp # <<>> /\ Head(sp) = 32 THEN ConsumeSpaces(Tail(sp)) ELSE sp

\* The pieces inputs are built from: a space, "a", a lone continuation byte,
\* U+2581 itself, and a lead byte (malformed unless two continuation bytes
\* follow).
Tokens == { <<32>>, <<97>>, <<128>>, kSpaceSymbol, <<226>> }

RECURSIVE InputsOfTokens(_)
InputsOfTokens(n) ==
  IF n = 0 THEN { <<>> }
  ELSE { t \o s : t \in Tokens, s \in InputsOfTokens(n - 1) }

Inputs == UNION { InputsOfTokens(n) : n \in 0..MaxTokens }

\* ---------------------------------------------------------------- UTF-8
IsTrailByte(b) == b >= 128 /\ b < 192

\* string_util::DecodeUTF8: the code point and byte length of the first rune;
\* on a malformed sequence the code point is U+FFFD and the length is 1.
DecodeUTF8(in) ==
  LET len == Len(in)
      b0 == in[1]
      bad == [c |-> 65533, mblen |-> 1]
  IN  IF b0 < 128 THEN [c |-> b0, mblen |-> 1]
      ELSE IF len >= 2 /\ b0 >= 192 /\ b0 < 224 /\ IsTrailByte(in[2])
        THEN LET cp == (b0 - 192) * 64 + (in[2] - 128)
             IN  IF cp >= 128 THEN [c |-> cp, mblen |-> 2] ELSE bad
      ELSE IF len >= 3 /\ b0 >= 224 /\ b0 < 240
              /\ IsTrailByte(in[2]) /\ IsTrailByte(in[3])
        THEN LET cp == (b0 - 224) * 4096 + (in[2] - 128) * 64 + (in[3] - 128)
             IN  IF cp >= 2048 THEN [c |-> cp, mblen |-> 3] ELSE bad
      ELSE IF len >= 4 /\ b0 >= 240 /\ b0 < 248
              /\ IsTrailByte(in[2]) /\ IsTrailByte(in[3]) /\ IsTrailByte(in[4])
        THEN LET cp == (b0 - 240) * 262144 + (in[2] - 128) * 4096
                       + (in[3] - 128) * 64 + (in[4] - 128)
             IN  IF cp >= 65536 THEN [c |-> cp, mblen |-> 4] ELSE bad
      ELSE bad

\* string_util::IsValidCodepoint: a Unicode scalar value.
IsValidCodepoint(c) == c < 55296 \/ (c >= 57344 /\ c <= 1114111)

\* string_util::IsValidDecodeUTF8: 0 for a malformed head, else the byte
\* length of the well-formed rune at the head of in.
IsValidDecodeUTF8(in) ==
  LET d == DecodeUTF8(in)
  IN  IF IsValidCodepoint(d.c) /\ (d.c # 65533 \/ d.mblen = 3)
        THEN d.mblen ELSE 0

\* ---------------------------------------------------------------- codec
\* string_util::EncodePOD<uint32>: the 4 bytes of a uint32, little endian.
\* (the four byte extractions together keep n modulo 2^32)
EncodePOD(n) ==
  << n % 256, (n \div 256) % 256, (n \div 65536) % 256, (n \div 16777216) % 256 >>

\* string_util::DecodePOD<uint32>: FALSE unless exactly sizeof(uint32) bytes.
DecodePODOk(s) == Len(s) = 4

DecodePOD(s) == s[1] + s[2] * 256 + s[3] * 65536 + s[4] * 16777216

\* Normalizer::EncodePrecompiledCharsMap
\* <trie size(4byte)><double array trie><normalized string>
\* Mutant: the size prefix records the size of the whole blob.
EncodePrecompiledCharsMapWholeSize(trie_blob, normalized_arg) ==
  EncodePOD(4 + Len(trie_blob) + Len(normalized_arg)) \o trie_blob \o normalized_arg

EncodePrecompiledCharsMap(trie_blob, normalized_arg) ==
  EncodePOD(Len(trie_blob)) \o trie_blob \o normalized_arg

\* A string_view into blob: offset and size.  Its bytes exist only when the
\* view lies inside the blob.
ViewInside(b, v) == v.off >= 0 /\ v.len >= 0 /\ v.off + v.len <= Len(b)

ViewBytes(b, v) == SubSeq(b, v.off + 1, v.off + v.len)

NoView == [off |-> 0, len |-> 0]

\* Normalizer::DecodePrecompiledCharsMap: the set of outcomes of one call.
\* The guard compares trie_blob_size with the size of the WHOLE blob, so a
\* prefix in (size-4, size) passes it; blob.remove_prefix(trie_blob_size) is
\* then called with more than the remaining size, which is undefined: a
\* hardened build aborts on the assertion, another build wraps the unsigned
\* length (a negative len stands for the wrapped value 2^64 + len).
DecodePrecompiledCharsMap(b) ==
  IF Len(b) <= 4 \/ ~DecodePODOk(Take(b, 4)) \/ DecodePOD(Take(b, 4)) >= Len(b)
    THEN { [status |-> "broken", trie_blob |-> NoView, normalized |-> NoView] }
    ELSE LET trie_blob_size == DecodePOD(Take(b, 4))
             rest == Len(b) - 4
             ok == [status |-> "ok",
                    trie_blob |-> [off |-> 4, len |-> trie_blob_size],
                    normalized |-> [off |-> 4 + trie_blob_size,
                                    len |-> rest - trie_blob_size]]
         IN  IF trie_blob_size <= rest
               THEN { ok }
               ELSE { ok, [status |-> "abort", trie_blob |-> NoView,
                           normalized |-> NoView] }

\* ---------------------------------------------------------------- charsmaps
\* The replacement strings of the compiled rule set, NUL delimited:
\*   offset 0 " b", offset 3 " ", offset 5 "".
NormalizedBlobA == <<32, 98, 0, 32, 0, 0>>

\* The serialized double array is opaque to the normalizer.
TrieBlobA == <<1, 0, 0, 0>>

\* Darts::DoubleArray::set_array: the keys the serialized array holds.
\*   "a" -> " b", "aa" -> " ", "\x80" -> ""
DartsSetArray(trie_blob) ==
  IF trie_blob = TrieBlobA
    THEN { [key |-> <<97>>, value |-> 0],
           [key |-> <<97, 97>>, value |-> 3],
           [key |-> <<128>>, value |-> 5] }
    ELSE {}

CharsMapA == EncodePrecompiledCharsMap(TrieBlobA, NormalizedBlobA)

\* precompiled_charsmap values of the NormalizerSpec: none, a compiled rule
\* set, and two blobs DecodePrecompiledCharsMap rejects (cut inside the
\* prefix; prefix not smaller than the blob).
CharsMaps == { <<>>, CharsMapA, Take(CharsMapA, 3), <<9, 0, 0, 0, 1, 0, 0, 0>> }

\* trie_ == nullptr
NoTrie == [null |-> TRUE, keys |-> {}]

\* ---------------------------------------------------------------- state
VARIABLES
  \* Normalizer members
  spec_,          \* NormalizerSpec: precompiled_charsmap and the three options
  status_,        \* latched construction status: "ok" or "broken"
  trie_,          \* the double array: its [key, value] rules, or NoTrie
  normalized_,    \* the decoded replacement-strings blob
  \* one Normalize call
  pc,             \* "idle", "loop" (inside the main while loop), "done"
  orig,           \* the input argument as passed by the caller
  input,          \* the string_view input, shrunk by remove_prefix
  normalized,     \* *normalized
  norm_to_orig,   \* *norm_to_orig
  consumed,
  is_prev_space,
  p,              \* the pair returned by NormalizePrefix in the last iteration
  result,         \* the returned util::Status: "ok", "broken" (the latched
                  \* status), "check_failed" (a CHECK_*_OR_RETURN), or "none"
  pass,           \* number of Normalize calls made on this Normalizer
  prev_normalized,\* *normalized of the previous call (the input of this one)
  repaired,       \* offsets of orig at which a malformed byte was replaced
  \* codec calls
  enc_args,       \* arguments of the last EncodePrecompiledCharsMap
  blob,           \* the blob handed to DecodePrecompiledCharsMap
  intact,         \* blob is, unmodified, the value Encode returned
  dec,            \* outcome of the last DecodePrecompiledCharsMap on blob
  \* character::Trainer
  trainer,        \* members of the Trainer
  tpc,            \* position inside Train
  train_ret,      \* status returned by Train
  trace           \* names of the steps Train has executed, in order

normVars == << spec_, status_, trie_, normalized_, pc, orig, input, normalized,
               norm_to_orig, consumed, is_prev_space, p, result, pass,
               prev_normalized, repaired >>

codecVars == << enc_args, blob, intact, dec >>

trainVars == << trainer, tpc, train_ret, trace >>

vars == << normVars, codecVars, trainVars >>

\* ---------------------------------------------------------------- Normalizer
\* Normalizer::Normalizer: the members after construction from spec.
Normalizer(spec) ==
  LET index == spec.precompiled_charsmap
  IN  IF index = <<>>
        THEN [status |-> "ok", trie |-> NoTrie, normalized |-> <<>>]
        ELSE LET d == CHOOSE o \in DecodePrecompiledCharsMap(index) : TRUE
             IN  IF d.status # "ok"
                   THEN [status |-> d.status, trie |-> NoTrie, normalized |-> <<>>]
                   ELSE [status |-> "ok",
                         trie |-> [null |-> FALSE,
                                  keys |-> DartsSetArray(ViewBytes(index, d.trie_blob))],
                         normalized |-> ViewBytes(index, d.normalized)]

\* Darts::DoubleArray::commonPrefixSearch: every key that is a prefix of in,
\* as (length, value), in order of increasing length.
RECURSIVE PrefixesFrom(_, _)
PrefixesFrom(in, n) ==
  IF n > Len(in) THEN <<>>
  ELSE LET hit == { r \in trie_.keys : r.key = Take(in, n) }
       IN  (IF hit = {} THEN <<>>
            ELSE << [length |-> n, value |-> (CHOOSE r \in hit : TRUE).value] >>)
           \o PrefixesFrom(in, n + 1)

commonPrefixSearch(in) == PrefixesFrom(in, 1)

\* "Finds the longest rule": the for loop over trie_results.
\* Mutant: keeps the first rule found.
RECURSIVE FindLongestFirst(_, _, _, _)
FindLongestFirst(trie_results, k, longest_length, longest_value) ==
  IF k > Len(trie_results)
    THEN [length |-> longest_length, value |-> longest_value]
  ELSE IF longest_length = 0
    THEN FindLongestFirst(trie_results, k + 1,
                          trie_results[k].length, trie_results[k].value)
  ELSE FindLongestFirst(trie_results, k + 1, longest_length, longest_value)

RECURSIVE FindLongest(_, _, _, _)
FindLongest(trie_results, k, longest_length, longest_value) ==
  IF k > Len(trie_results)
    THEN [length |-> longest_length, value |-> longest_value]
  ELSE IF longest_length = 0 \/ trie_results[k].length > longest_length
    THEN FindLongest(trie_results, k + 1,
                     trie_results[k].length, trie_results[k].value)
  ELSE FindLongest(trie_results, k + 1, longest_length, longest_value)

\* absl::string_view(&normalized_[value]): the bytes up to the next NUL.
RECURSIVE CStr(_, _)
CStr(s, off) ==
  IF off >= Len(s) \/ s[off + 1] = 0 THEN <<>>
  ELSE << s[off + 1] >> \o CStr(s, off + 1)

\* The fallback branch of NormalizePrefix (longest_length == 0).
\* Mutant: a malformed head consumes the length its lead byte announces.
DecodeRuneWholeSequence(in) ==
  LET length == IsValidDecodeUTF8(in)
      announced == IF in[1] >= 240 THEN 4 ELSE IF in[1] >= 224 THEN 3
                   ELSE IF in[1] >= 192 THEN 2 ELSE 1
  IN  IF length = 0
        THEN [first |-> kReplacementChar,
              second |-> IF announced <= Len(in) THEN announced ELSE Len(in)]
        ELSE [first |-> Take(in, length), second |-> length]

DecodeRune(in) ==
  LET length == IsValidDecodeUTF8(in)
  IN  IF length = 0
        THEN [first |-> kReplacementChar, second |-> 1]
        ELSE [first |-> Take(in, length), second |-> length]

\* Normalizer::NormalizePrefix
NormalizePrefix(in) ==
  IF in = <<>> THEN [first |-> <<>>, second |-> 0]
  ELSE LET longest == IF ~trie_.null
                        THEN FindLongest(commonPrefixSearch(in), 1, 0, 0)
                        ELSE [length |-> 0, value |-> 0]
       IN  IF longest.length = 0
             THEN DecodeRune(in)
             ELSE [first |-> CStr(normalized_, longest.value),
                   second |-> longest.length]

\* The std::pair NormalizePrefix returns for an empty input; also the value of
\* p before the first iteration of the main loop.
NoP == [first |-> <<>>, second |-> 0]

\* "Ignores heading space": the first while loop of Normalize.
RECURSIVE StripHeading(_, _)
StripHeading(in, c) ==
  IF in = <<>> THEN [input |-> in, consumed |-> c]
  ELSE LET q == NormalizePrefix(in)
       IN  IF q.first # <<32>> THEN [input |-> in, consumed |-> c]
           ELSE StripHeading(Drop(in, q.second), c + q.second)

\* n copies of c
Repeat(c, n) == [i \in 1..n |-> c]

\* "Adds a space symbol as a prefix": the add_dummy_prefix block.
\* Mutant: the prefix is added whatever add_dummy_prefix says.
DummyPrefixAlways(c) ==
  IF spec_.escape_whitespaces
    THEN [normalized |-> kSpaceSymbol, norm_to_orig |-> Repeat(c, 3)]
    ELSE [normalized |-> <<32>>, norm_to_orig |-> <<c>>]

DummyPrefix(c) ==
  IF spec_.add_dummy_prefix
    THEN IF spec_.escape_whitespaces
           THEN [normalized |-> kSpaceSymbol, norm_to_orig |-> Repeat(c, 3)]
           ELSE [normalized |-> <<32>>, norm_to_orig |-> <<c>>]
    ELSE [normalized |-> <<>>, norm_to_orig |-> <<>>]

\* The for loop over the bytes of sp: the bytes appended to *normalized and
\* the entries appended to *norm_to_orig.
\* Mutant: an escaped space records one origin for its three bytes.
RECURSIVE EmitOneOrigin(_, _)
EmitOneOrigin(sp, c) ==
  IF sp = <<>> THEN [normalized |-> <<>>, norm_to_orig |-> <<>>]
  ELSE LET rest == EmitOneOrigin(Tail(sp), c)
       IN  IF spec_.escape_whitespaces /\ Head(sp) = 32
             THEN [normalized |-> kSpaceSymbol \o rest.normalized,
                   norm_to_orig |-> << c >> \o rest.norm_to_orig]
             ELSE [normalized |-> << Head(sp) >> \o rest.normalized,
                   norm_to_orig |-> << c >> \o rest.norm_to_orig]

RECURSIVE Emit(_, _)
Emit(sp, c) ==
  IF sp = <<>> THEN [normalized |-> <<>>, norm_to_orig |-> <<>>]
  ELSE LET rest == Emit(Tail(sp), c)
       IN  IF spec_.escape_whitespaces /\ Head(sp) = 32
             THEN [normalized |-> kSpaceSymbol \o rest.normalized,
                   norm_to_orig |-> Repeat(c, 3) \o rest.norm_to_orig]
             ELSE [normalized |-> << Head(sp) >> \o rest.normalized,
                   norm_to_orig |-> << c >> \o rest.norm_to_orig]

\* is_prev_space after an iteration of the main loop that emitted sp.
\* Mutant: the flag is cleared whatever remove_extra_whitespaces says.
IsPrevSpaceAfterCleared(sp, prev) == FALSE

IsPrevSpaceAfter(sp, prev) ==
  IF ~spec_.remove_extra_whitespaces THEN FALSE
  ELSE IF sp # <<>> THEN EndsWith(sp, <<32>>)
  ELSE prev

\* "Ignores tailing space": the last while loop of Normalize.  status is
\* "check_failed" when CHECK_GE_OR_RETURN(length, 0) fails.
\* Mutant: consumed is reset to the offset in the output, not in the input.
RECURSIVE StripTailingOutputOffset(_, _, _, _)
StripTailingOutputOffset(nz, n2o, c, space) ==
  IF ~EndsWith(nz, space) THEN [status |-> "ok", normalized |-> nz,
                                norm_to_orig |-> n2o, consumed |-> c]
  ELSE LET length == Len(nz) - Len(space)
       IN  IF length < 0
             THEN [status |-> "check_failed", normalized |-> nz,
                   norm_to_orig |-> n2o, consumed |-> c]
             ELSE StripTailingOutputOffset(Take(nz, length), Take(n2o, length),
                                           length, space)

RECURSIVE StripTailing(_, _, _, _)
StripTailing(nz, n2o, c, space) ==
  IF ~EndsWith(nz, space) THEN [status |-> "ok", normalized |-> nz,
                                norm_to_orig |-> n2o, consumed |-> c]
  ELSE LET length == Len(nz) - Len(space)
       IN  IF length < 0
             THEN [status |-> "check_failed", normalized |-> nz,
                   norm_to_orig |-> n2o, consumed |-> c]
             ELSE StripTailing(Take(nz, length), Take(n2o, length),
                               n2o[length + 1], space)

\* norm_to_orig->push_back(consumed) after the loops.
PushSentinel(n2o, c) == Append(n2o, c)

\* Normalize, from its entry to the first test of the main while loop.
Enter(in) ==
  /\ orig' = in
  /\ p' = NoP
  /\ repaired' = {}
  /\ IF in = <<>>
       THEN /\ result' = "ok"
            /\ pc' = "done"
            /\ input' = in
            /\ normalized' = <<>>
            /\ norm_to_orig' = <<>>
            /\ UNCHANGED << consumed, is_prev_space >>
     ELSE IF status_ # "ok"
       THEN /\ result' = status_
            /\ pc' = "done"
            /\ input' = in
            /\ normalized' = <<>>
            /\ norm_to_orig' = <<>>
            /\ UNCHANGED << consumed, is_prev_space >>
     ELSE LET s == IF spec_.remove_extra_whitespaces
                     THEN StripHeading(in, 0)
                     ELSE [input |-> in, consumed |-> 0]
              pre == DummyPrefix(s.consumed)
          IN  /\ input' = s.input
              /\ consumed' = s.consumed
              /\ IF s.input = <<>>
                   THEN /\ result' = "ok"
                        /\ pc' = "done"
                        /\ normalized' = <<>>
                        /\ norm_to_orig' = <<>>
                        /\ UNCHANGED is_prev_space
                   ELSE /\ result' = "none"
                        /\ pc' = "loop"
                        /\ normalized' = pre.normalized
                        /\ norm_to_orig' = pre.norm_to_orig
                        /\ is_prev_space' = spec_.remove_extra_whitespaces
  /\ UNCHANGED << spec_, status_, trie_, normalized_, codecVars, trainVars >>

\* A caller calls Normalize(input, &normalized, &norm_to_orig).
Normalize ==
  /\ pc = "idle"
  /\ \E in \in Inputs : Enter(in)
  /\ pass' = 1
  /\ prev_normalized' = <<>>

\* The caller normalizes the string the previous call returned.
NormalizeAgain ==
  /\ pc = "done"
  /\ result = "ok"
  /\ pass < MaxPasses
  /\ Enter(normalized)
  /\ pass' = pass + 1
  /\ prev_normalized' = normalized

\* One iteration of the main while loop.
NormalizeStep ==
  /\ pc = "loop"
  /\ input # <<>>
  /\ LET q == NormalizePrefix(input)
         sp == IF is_prev_space THEN ConsumeSpaces(q.first) ELSE q.first
         out == Emit(sp, consumed)
         found == ~trie_.null /\ commonPrefixSearch(input) # <<>>
     IN  /\ p' = q
         /\ normalized' = normalized \o out.normalized
         /\ norm_to_orig' = norm_to_orig \o out.norm_to_orig
         /\ is_prev_space' = IsPrevSpaceAfter(sp, is_prev_space)
         /\ consumed' = consumed + q.second
         /\ input' = Drop(input, q.second)
         /\ repaired' = IF ~found /\ IsValidDecodeUTF8(input) = 0
                          THEN repaired \cup {consumed} ELSE repaired
  /\ UNCHANGED << spec_, status_, trie_, normalized_, pc, orig, result, pass,
                  prev_normalized, codecVars, trainVars >>

\* Normalize, from the exit of the main loop to its return.
NormalizeFinish ==
  /\ pc = "loop"
  /\ input = <<>>
  /\ LET space == IF spec_.escape_whitespaces THEN kSpaceSymbol ELSE <<32>>
         t == IF spec_.remove_extra_whitespaces
                THEN StripTailing(normalized, norm_to_orig, consumed, space)
                ELSE [status |-> "ok", normalized |-> normalized,
                      norm_to_orig |-> norm_to_orig, consumed |-> consumed]
         pushed == PushSentinel(t.norm_to_orig, t.consumed)
     IN  /\ normalized' = t.normalized
         /\ consumed' = t.consumed
         /\ IF t.status # "ok"
              THEN /\ result' = t.status
                   /\ norm_to_orig' = t.norm_to_orig
              ELSE /\ norm_to_orig' = pushed
                   /\ result' = IF Len(pushed) = Len(t.normalized) + 1
                                  THEN "ok" ELSE "check_failed"
  /\ pc' = "done"
  /\ UNCHANGED << spec_, status_, trie_, normalized_, orig, input,
                  is_prev_space, p, pass, prev_normalized, repaired,
                  codecVars, trainVars >>

\* ---------------------------------------------------------------- codec calls
\* Byte values of the blobs given to the codec.
CodecBytes == { 0, 1, 3, 97 }

RECURSIVE ByteStrings(_)
ByteStrings(n) ==
  IF n = 0 THEN { <<>> }
  ELSE ByteStrings(n - 1)
       \cup { Append(s, b) : s \in { x \in ByteStrings(n - 1) : Len(x) = n - 1 },
                             b \in CodecBytes }

NoDecode == [status |-> "none", trie_blob |-> NoView, normalized |-> NoView]

\* A caller builds a blob with EncodePrecompiledCharsMap(trie_blob, normalized).
Encode ==
  /\ blob = <<>>
  /\ ~intact
  /\ \E t \in ByteStrings(MaxBlobLen), n \in ByteStrings(MaxBlobLen) :
       /\ enc_args' = << t, n >>
       /\ blob' = EncodePrecompiledCharsMap(t, n)
  /\ intact' = TRUE
  /\ dec' = NoDecode
  /\ UNCHANGED << normVars, trainVars >>

\* The blob reaches the decoder cut short.
Truncate ==
  /\ blob # <<>>
  /\ \E k \in 0..(Len(blob) - 1) : blob' = Take(blob, k)
  /\ intact' = FALSE
  /\ dec' = NoDecode
  /\ UNCHANGED << enc_args, normVars, trainVars >>

\* The blob reaches the decoder with one byte changed.
Garble ==
  /\ intact
  /\ \E i \in 1..Len(blob) :
       \E v \in CodecBytes \ { blob[i] } : blob' = [blob EXCEPT ![i] = v]
  /\ intact' = FALSE
  /\ dec' = NoDecode
  /\ UNCHANGED << enc_args, normVars, trainVars >>

\* A caller calls DecodePrecompiledCharsMap(blob, &trie_blob, &normalized).
Decode ==
  /\ dec.status = "none"
  /\ \E o \in DecodePrecompiledCharsMap(blob) : dec' = o
  /\ UNCHANGED << enc_args, blob, intact, normVars, trainVars >>

\* ---------------------------------------------------------------- character::Trainer
\* The steps of character::Trainer::Train in program order; each one returns
\* from Train when it fails.
\* Mutant: the corpus is loaded before the two configuration checks.
TrainStepsLoadFirst ==
  << "status", "LoadSentences", "escape_whitespaces", "model_type",
     "vocab_size", "final_pieces", "Save" >>

TrainSteps ==
  << "status", "escape_whitespaces", "model_type", "LoadSentences",
     "vocab_size", "final_pieces", "Save" >>

StepIndex(step) == CHOOSE i \in 1..Len(TrainSteps) : TrainSteps[i] = step

\* TrainerSpec::ModelType
ModelTypes == { "UNIGRAM", "BPE", "WORD", "CHAR" }

\* required_chars_ as LoadSentences may leave it: character -> frequency.
Corpora ==
  { << >>,
    [c \in {97} |-> 2],
    [c \in {97, 98} |-> IF c = 97 THEN 1 ELSE 3],
    [c \in {97, 98, 99} |-> IF c = 98 THEN 2 ELSE 1] }

\* Sorted(required_chars_): by frequency, highest first, then by character.
RECURSIVE Sorted(_)
Sorted(m) ==
  IF DOMAIN m = {} THEN <<>>
  ELSE LET best == CHOOSE c \in DOMAIN m :
                     \A d \in DOMAIN m :
                       m[c] > m[d] \/ (m[c] = m[d] /\ c <= d)
       IN  << << best, m[best] >> >>
           \o Sorted([c \in DOMAIN m \ {best} |-> m[c]])

RECURSIVE SumFreq(_)
SumFreq(m) ==
  IF DOMAIN m = {} THEN 0
  ELSE LET c == CHOOSE x \in DOMAIN m : TRUE
       IN  m[c] + SumFreq([d \in DOMAIN m \ {c} |-> m[d]])

\* The for loop filling final_pieces_: the first vocab_size required
\* characters; the score log(freq) - log(sum) is kept as the pair (freq, sum).
FinalPieces(m, vocab_size) ==
  LET sorted == Sorted(m)
      n == IF Len(sorted) < vocab_size THEN Len(sorted) ELSE vocab_size
  IN  [i \in 1..n |-> [piece |-> sorted[i][1],
                       score |-> << sorted[i][2], SumFreq(m) >>]]

\* Train leaves step: it returns on failure and after Save, else it goes on
\* to the next step.
Advance(step, ok, ret) ==
  /\ trace' = Append(trace, [step |-> step, ok |-> ok])
  /\ IF ok /\ StepIndex(step) < Len(TrainSteps)
       THEN /\ tpc' = TrainSteps[StepIndex(step) + 1]
            /\ train_ret' = train_ret
       ELSE /\ tpc' = "done"
            /\ train_ret' = ret

\* A caller calls Train().
TrainCall ==
  /\ tpc = "idle"
  /\ tpc' = TrainSteps[1]
  /\ UNCHANGED << trainer, train_ret, trace, normVars, codecVars >>

\* RETURN_IF_ERROR(status())
TrainStatus ==
  /\ tpc = "status"
  /\ Advance("status", trainer.status = "ok", trainer.status)
  /\ UNCHANGED << trainer, normVars, codecVars >>

\* CHECK_OR_RETURN(normalizer_spec_.escape_whitespaces())
TrainEscapeWhitespaces ==
  /\ tpc = "escape_whitespaces"
  /\ Advance("escape_whitespaces", trainer.escape_whitespaces, "check_failed")
  /\ UNCHANGED << trainer, normVars, codecVars >>

\* CHECK_EQ_OR_RETURN(TrainerSpec::CHAR, trainer_spec_.model_type())
TrainModelType ==
  /\ tpc = "model_type"
  /\ Advance("model_type", trainer.model_type = "CHAR", "check_failed")
  /\ UNCHANGED << trainer, normVars, codecVars >>

\* RETURN_IF_ERROR(LoadSentences()): the corpus reader fails, or fills
\* required_chars_.
TrainLoadSentences ==
  /\ tpc = "LoadSentences"
  /\ \/ /\ Advance("LoadSentences", FALSE, "load_error")
        /\ UNCHANGED trainer
     \/ \E m \in Corpora :
          /\ Advance("LoadSentences", TRUE, "ok")
          /\ trainer' = [trainer EXCEPT !.required_chars_ = m]
  /\ UNCHANGED << normVars, codecVars >>

\* vocab_size = trainer_spec_.vocab_size() - meta_pieces_.size()
VocabSize == trainer.vocab_size - trainer.meta_pieces_

\* CHECK_GE_OR_RETURN(vocab_size, 0)
TrainVocabSize ==
  /\ tpc = "vocab_size"
  /\ Advance("vocab_size", VocabSize >= 0, "check_failed")
  /\ UNCHANGED << trainer, normVars, codecVars >>

\* CHECK_OR_RETURN(final_pieces_.empty()) and the loop over the sorted
\* required characters.
TrainFinalPieces ==
  /\ tpc = "final_pieces"
  /\ Advance("final_pieces", trainer.final_pieces_ = <<>>, "check_failed")
  /\ trainer' = IF trainer.final_pieces_ = <<>>
                  THEN [trainer EXCEPT !.final_pieces_ =
                          FinalPieces(trainer.required_chars_, VocabSize)]
                  ELSE trainer
  /\ UNCHANGED << normVars, codecVars >>

\* return Save(): the model writer succeeds or fails.
TrainSave ==
  /\ tpc = "Save"
  /\ \E r \in { "ok", "save_error" } : Advance("Save", r = "ok", r)
  /\ UNCHANGED << trainer, normVars, codecVars >>

\* ---------------------------------------------------------------- specification
\* The values the variables of the other components hold while one component
\* is exercised.
NormIdle ==
  /\ spec_ = [precompiled_charsmap |-> <<>>, add_dummy_prefix |-> TRUE,
              remove_extra_whitespaces |-> TRUE, escape_whitespaces |-> TRUE]
  /\ status_ = "ok"
  /\ trie_ = NoTrie
  /\ normalized_ = <<>>
  /\ pc = "idle"
  /\ orig = <<>>
  /\ input = <<>>
  /\ normalized = <<>>
  /\ norm_to_orig = <<>>
  /\ consumed = 0
  /\ is_prev_space = FALSE
  /\ p = NoP
  /\ result = "none"
  /\ pass = 0
  /\ prev_normalized = <<>>
  /\ repaired = {}

CodecIdle ==
  /\ enc_args = << <<>>, <<>> >>
  /\ blob = <<>>
  /\ intact = FALSE
  /\ dec = NoDecode

TrainIdle ==
  /\ trainer = [status |-> "ok", escape_whitespaces |-> TRUE,
                model_type |-> "CHAR", vocab_size |-> 0, meta_pieces_ |-> 0,
                required_chars_ |-> << >>, final_pieces_ |-> << >>]
  /\ tpc = "idle"
  /\ train_ret = "none"
  /\ trace = <<>>

\* A Normalizer constructed from any NormalizerSpec, before its first call.
InitNorm ==
  /\ \E cm \in CharsMaps, dp \in BOOLEAN, rw \in BOOLEAN, ew \in BOOLEAN :
       LET spec == [precompiled_charsmap |-> cm, add_dummy_prefix |-> dp,
                    remove_extra_whitespaces |-> rw, escape_whitespaces |-> ew]
           n == Normalizer(spec)
       IN  /\ spec_ = spec
           /\ status_ = n.status
           /\ trie_ = n.trie
           /\ normalized_ = n.normalized
  /\ pc = "idle"
  /\ orig = <<>>
  /\ input = <<>>
  /\ normalized = <<>>
  /\ norm_to_orig = <<>>
  /\ consumed = 0
  /\ is_prev_space = FALSE
  /\ p = NoP
  /\ result = "none"
  /\ pass = 0
  /\ prev_normalized = <<>>
  /\ repaired = {}
  /\ CodecIdle
  /\ TrainIdle

NextNorm ==
  \/ Normalize
  \/ NormalizeAgain
  \/ NormalizeStep
  \/ NormalizeFinish

SpecNorm == InitNorm /\ [][NextNorm]_vars

\* The codec, before any blob was built.
InitCodec == NormIdle /\ CodecIdle /\ TrainIdle

NextCodec ==
  \/ Encode
  \/ Truncate
  \/ Garble
  \/ Decode

SpecCodec == InitCodec /\ [][NextCodec]_vars

\* A character::Trainer constructed from any TrainerSpec and NormalizerSpec,
\* before Train is called.
InitTrain ==
  /\ NormIdle
  /\ CodecIdle
  /\ \E st \in { "ok", "error" }, ew \in BOOLEAN, mt \in ModelTypes,
        vs \in 0..MaxVocab, mp \in 0..MaxVocab :
       trainer = [status |-> st, escape_whitespaces |-> ew, model_type |-> mt,
                  vocab_size |-> vs, meta_pieces_ |-> mp,
                  required_chars_ |-> << >>, final_pieces_ |-> << >>]
  /\ tpc = "idle"
  /\ train_ret = "none"
  /\ trace = << >>

NextTrain ==
  \/ TrainCall
  \/ TrainStatus
  \/ TrainEscapeWhitespaces
  \/ TrainModelType
  \/ TrainLoadSentences
  \/ TrainVocabSize
  \/ TrainFinalPieces
  \/ TrainSave

SpecTrain == InitTrain /\ [][NextTrain]_vars
\* ---------------------------------------------------------------- properties
\* A Normalize call has returned.
Returned == pc = "done"

\* The call returned from one of the two early exits that follow clear().
EarlyReturn == orig = <<>> \/ (spec_.remove_extra_whitespaces /\ input = <<>>)

\* C1 (as stated): every successful Normalize returns a trace one longer than
\* its output, the empty input and the all-whitespace input included.
C1_TraceLengthForAnyInput ==
  (Returned /\ result = "ok") => Len(norm_to_orig) = Len(normalized) + 1

\* C1 (amended): Normalize never fails its own length check, and a successful
\* call returns either a trace one longer than its output, or, from the early
\* exits (empty input; input wholly stripped as heading whitespace under
\* remove_extra_whitespaces), an empty output with an empty trace.
C1_TraceLength ==
  Returned =>
    /\ result # "check_failed"
    /\ result = "ok" =>
         IF norm_to_orig = <<>>
           THEN normalized = <<>> /\ EarlyReturn
           ELSE Len(norm_to_orig) = Len(normalized) + 1

\* C1 witness: a successful call that added the prefix, escaped a space and
\* truncated a tailing marker.
C1_Witness ==
  /\ Returned /\ result = "ok" /\ pass = 1
  /\ spec_.add_dummy_prefix /\ spec_.escape_whitespaces
  /\ spec_.remove_extra_whitespaces
  /\ consumed < Len(orig)
  /\ Len(normalized) > 6

\* C2 (as stated): every trace entry, the sentinel included, is smaller than
\* the input's length, and the entries never decrease.
C2_EntriesBelowLength ==
  (Returned /\ result = "ok") =>
    \A i \in 1..Len(norm_to_orig) :
      /\ 0 <= norm_to_orig[i] /\ norm_to_orig[i] < Len(orig)
      /\ i < Len(norm_to_orig) => norm_to_orig[i] <= norm_to_orig[i + 1]

\* C2 (amended): the entries never decrease; every entry but the last is an
\* index into the input (0 <= entry < len(input)); the final sentinel is the
\* consumed length, 0 <= sentinel <= len(input).
C2_EntriesInRange ==
  (Returned /\ result = "ok") =>
    \A i \in 1..Len(norm_to_orig) :
      /\ 0 <= norm_to_orig[i] /\ norm_to_orig[i] <= Len(orig)
      /\ i < Len(norm_to_orig) =>
           /\ norm_to_orig[i] < Len(orig)
           /\ norm_to_orig[i] <= norm_to_orig[i + 1]

\* C2 witness: the tailing truncation reset consumed below the input length
\* and the sentinel records it after at least two distinct origins.
C2_Witness ==
  /\ Returned /\ result = "ok"
  /\ spec_.remove_extra_whitespaces
  /\ Len(norm_to_orig) > 2
  /\ norm_to_orig[Len(norm_to_orig)] = consumed
  /\ consumed < Len(orig)
  /\ norm_to_orig[1] < consumed

\* C3: a Normalizer whose construction latched an error never returns Ok from
\* Normalize, whatever the input.
C3_LatchedErrorAlwaysReturned ==
  (Returned /\ status_ # "ok") => result = status_

\* No rule of the trie matches at the head of in.
NoRuleAt(in) ==
  \/ trie_.null
  \/ \A r \in trie_.keys : Len(r.key) > Len(in) \/ Take(in, Len(r.key)) # r.key

\* Positions of the output holding a U+FFFD whose three bytes have origin o.
ReplacementsFrom(nz, n2o, o) ==
  { i \in 1..(Len(nz) - 2) :
      /\ SubSeq(nz, i, i + 2) = kReplacementChar
      /\ n2o[i] = o /\ n2o[i + 1] = o /\ n2o[i + 2] = o }

\* C6: with a valid or empty charsmap Normalize succeeds on every input; an
\* iteration at a malformed byte no rule matches appends exactly U+FFFD with
\* three trace entries equal to the byte's offset and advances the input by
\* one byte; the returned output holds exactly one such U+FFFD per repaired
\* offset.
C6_MalformedByteContained ==
  [][ /\ (pc = "loop" /\ pc' = "loop" /\ input # <<>>
          /\ NoRuleAt(input) /\ IsValidDecodeUTF8(input) = 0) =>
            /\ normalized' = normalized \o kReplacementChar
            /\ norm_to_orig' = norm_to_orig \o << consumed, consumed, consumed >>
            /\ consumed' = consumed + 1
            /\ input' = Tail(input)
      /\ (pc' = "done" /\ status_ = "ok") =>
            /\ result' = "ok"
            /\ \A o \in repaired' :
                 Cardinality(ReplacementsFrom(normalized', norm_to_orig', o)) = 1
    ]_vars

\* C6 witness: a call on a Normalizer with a compiled charsmap returned after
\* repairing two malformed bytes, one of them a lead byte.
C6_Witness ==
  /\ Returned /\ result = "ok" /\ pass = 1
  /\ ~trie_.null
  /\ Cardinality(repaired) >= 2
  /\ \E o \in repaired : orig[o + 1] = 226

\* C7 (as stated): with remove_extra_whitespaces=false, normalizing a
\* normalized string returns it unchanged.
C7_IdempotentWithoutDedup ==
  (Returned /\ result = "ok" /\ pass >= 2 /\ ~spec_.remove_extra_whitespaces)
    => normalized = prev_normalized

\* C7 (amended): with remove_extra_whitespaces=false, add_dummy_prefix=false
\* and an empty precompiled_charsmap (identity rules), normalizing a
\* normalized string returns it unchanged.
C7_IdempotentIdentityNoPrefix ==
  (Returned /\ result = "ok" /\ pass >= 2 /\ ~spec_.remove_extra_whitespaces
     /\ ~spec_.add_dummy_prefix /\ spec_.precompiled_charsmap = <<>>)
    => normalized = prev_normalized

\* C7 witness: the second call returned on an input in which the first call
\* had escaped a space and repaired a malformed byte.
C7_Witness ==
  /\ Returned /\ result = "ok" /\ pass = 2
  /\ ~spec_.remove_extra_whitespaces /\ ~spec_.add_dummy_prefix
  /\ spec_.escape_whitespaces /\ spec_.precompiled_charsmap = <<>>
  /\ orig = prev_normalized
  /\ Len(orig) >= 6
  /\ Take(orig, 3) = kSpaceSymbol
  /\ EndsWith(orig, kReplacementChar)
  /\ normalized = orig

\* Every rune of s is well formed.
RECURSIVE WellFormed(_)
WellFormed(s) ==
  \/ s = <<>>
  \/ /\ IsValidDecodeUTF8(s) > 0
     /\ WellFormed(Drop(s, IsValidDecodeUTF8(s)))

\* s holds U+2581 somewhere.
HasMarker(s) ==
  \E i \in 1..(Len(s) - 2) : SubSeq(s, i, i + 2) = kSpaceSymbol

\* The words of s (maximal runs without a space), each behind one marker.
RECURSIVE MarkedWords(_, _)
MarkedWords(s, word) ==
  LET flush == IF word = <<>> THEN <<>> ELSE kSpaceSymbol \o word
  IN  IF s = <<>> THEN flush
      ELSE IF Head(s) = 32 THEN flush \o MarkedWords(Tail(s), <<>>)
      ELSE MarkedWords(Tail(s), Append(word, Head(s)))

DoubledMarker(s) ==
  \E i \in 1..(Len(s) - 5) : SubSeq(s, i, i + 5) = kSpaceSymbol \o kSpaceSymbol

\* A first call with the identity charsmap and all three options set
\* returned, on an input of spaces and well-formed characters with at least
\* one character that is not a space.
CollapsingCase ==
  /\ Returned /\ pass = 1 /\ status_ = "ok"
  /\ spec_.precompiled_charsmap = <<>>
  /\ spec_.remove_extra_whitespaces /\ spec_.escape_whitespaces
  /\ spec_.add_dummy_prefix
  /\ WellFormed(orig)
  /\ \E i \in 1..Len(orig) : orig[i] # 32

CollapsedOutput ==
  /\ result = "ok"
  /\ normalized = MarkedWords(orig, <<>>)
  /\ ~DoubledMarker(normalized)
  /\ ~EndsWith(normalized, kSpaceSymbol)

\* C8 (as stated): the output is one marker before each space-separated word
\* of the input, with no doubled and no final marker, for every input of
\* spaces and non-space characters.
C8_CollapsedForAnyCharacters == CollapsingCase => CollapsedOutput

\* C8 (amended): the same, for inputs of spaces and well-formed non-space
\* characters other than U+2581 itself.
C8_Collapsed == (CollapsingCase /\ ~HasMarker(orig)) => CollapsedOutput

\* C8 witness: heading, doubled interior and tailing spaces around two words.
C8_Witness ==
  /\ CollapsingCase /\ ~HasMarker(orig)
  /\ \E i \in 1..(Len(orig) - 3) :
       /\ orig[i] # 32 /\ orig[i + 1] = 32 /\ orig[i + 2] = 32
       /\ orig[i + 3] # 32
  /\ normalized = MarkedWords(orig, <<>>)

\* The input NormalizePrefix was given in the last iteration of the main loop.
PrefixInput == Drop(orig, consumed - p.second)

\* The rules of the trie whose key is a prefix of in.
MatchesAt(in) ==
  IF trie_.null THEN {}
  ELSE { r \in trie_.keys : Len(r.key) <= Len(in) /\ Take(in, Len(r.key)) = r.key }

\* str is the NUL-terminated string at offset off of s.
IsCStrAt(s, off, str) ==
  /\ off + Len(str) < Len(s)
  /\ SubSeq(s, off + 1, off + Len(str)) = str
  /\ s[off + Len(str) + 1] = 0
  /\ \A i \in 1..Len(str) : str[i] # 0

\* C9: NormalizePrefix consumes the greatest matched length and returns the
\* NUL-terminated replacement of that match; without a match it returns one
\* decoded rune (or U+FFFD for one byte); it consumes between 1 and
\* len(input) bytes.
C9_LongestMatch ==
  (pc = "loop" /\ p.second # 0) =>
    LET in == PrefixInput
        m == MatchesAt(in)
    IN  /\ 1 <= p.second /\ p.second <= Len(in)
        /\ m # {} =>
             /\ \A r \in m : Len(r.key) <= p.second
             /\ \E r \in m : /\ Len(r.key) = p.second
                             /\ IsCStrAt(normalized_, r.value, p.first)
        /\ m = {} =>
             \/ /\ p.first = Take(in, p.second)
                /\ IsValidDecodeUTF8(in) = p.second
             \/ /\ p.first = kReplacementChar /\ p.second = 1
                /\ IsValidDecodeUTF8(in) = 0

\* C9 witness: two rules matched and the longer one was taken.
C9_Witness ==
  /\ pc = "loop" /\ p.second = 2
  /\ Cardinality(MatchesAt(PrefixInput)) = 2
  /\ p.first = <<32>>
\* A DecodePrecompiledCharsMap call has returned (it did not abort).
Decoded == dec.status \in { "ok", "broken" }

\* C4 (as stated): Decode(Encode(trie_blob, normalized)) succeeds and returns
\* (trie_blob, normalized) for all byte strings, both empty included.
C4_RoundTripForAnyArguments ==
  (intact /\ dec.status # "none") =>
    /\ dec.status = "ok"
    /\ ViewInside(blob, dec.trie_blob) /\ ViewInside(blob, dec.normalized)
    /\ ViewBytes(blob, dec.trie_blob) = enc_args[1]
    /\ ViewBytes(blob, dec.normalized) = enc_args[2]

\* C4 (amended): Decode(Encode(trie_blob, normalized)) succeeds and returns
\* (trie_blob, normalized) unless both arguments are empty; the 4-byte blob
\* Encode returns for two empty arguments is rejected as broken.
C4_RoundTrip ==
  (intact /\ dec.status # "none") =>
    IF enc_args = << <<>>, <<>> >>
      THEN dec.status = "broken"
      ELSE /\ dec.status = "ok"
           /\ ViewInside(blob, dec.trie_blob) /\ ViewInside(blob, dec.normalized)
           /\ ViewBytes(blob, dec.trie_blob) = enc_args[1]
           /\ ViewBytes(blob, dec.normalized) = enc_args[2]

\* C4 witness: a blob encoded from two non-empty arguments was decoded.
C4_Witness ==
  /\ intact /\ dec.status = "ok"
  /\ Len(enc_args[1]) = MaxBlobLen /\ Len(enc_args[2]) > 0
  /\ enc_args[1] # enc_args[2]

\* C5: a successful Decode returns two views inside the blob that cover it
\* after the prefix, and a blob whose prefix exceeds len(blob) - 4 is
\* rejected as broken.
C5_ViewsInsideBlob ==
  /\ dec.status = "ok" =>
       /\ ViewInside(blob, dec.trie_blob) /\ ViewInside(blob, dec.normalized)
       /\ 4 + dec.trie_blob.len + dec.normalized.len = Len(blob)
  /\ (dec.status # "none" /\ Len(blob) >= 4
      /\ DecodePOD(Take(blob, 4)) > Len(blob) - 4) => dec.status = "broken"

\* The steps Train has executed, by name.
Ran(step) == \E i \in 1..Len(trace) : trace[i].step = step

Passed(step) == \E i \in 1..Len(trace) : trace[i].step = step /\ trace[i].ok

ConfigConsistent ==
  /\ trainer.status = "ok"
  /\ trainer.escape_whitespaces
  /\ trainer.model_type = "CHAR"

\* C10: a spec-consistency failure makes Train return an error without
\* LoadSentences ever running; Save runs only after the status check, the
\* two configuration checks, LoadSentences and the vocab_size check have
\* succeeded, in that order; no step runs after a failed one.
C10_FailFastOrder ==
  /\ Ran("LoadSentences") => ConfigConsistent
  /\ (tpc = "done" /\ ~ConfigConsistent) =>
       train_ret \notin { "ok", "none" } /\ ~Ran("LoadSentences")
  /\ Ran("Save") =>
       /\ Len(trace) >= 6
       /\ \A i \in 1..5 : trace[i].ok
       /\ << trace[1].step, trace[2].step, trace[3].step, trace[4].step,
             trace[5].step >>
            = << "status", "escape_whitespaces", "model_type",
                 "LoadSentences", "vocab_size" >>
       /\ trace[Len(trace)].step = "Save"
       /\ ConfigConsistent
       /\ trainer.vocab_size - trainer.meta_pieces_ >= 0
  /\ \A i \in 1..Len(trace) : ~trace[i].ok => i = Len(trace) /\ tpc = "done"
  /\ \A i \in 1..Len(trace) : \A j \in 1..Len(trace) :
       trace[i].step = trace[j].step => i = j

\* C10 witness: Train ran through to a successful Save.
C10_Witness ==
  /\ tpc = "done" /\ train_ret = "ok"
  /\ Passed("Save")
  /\ Len(trainer.final_pieces_) = MaxVocab

\* C10 witness of the failing side: Train returned on the model type check.
C10_WitnessFailure ==
  /\ tpc = "done" /\ Ran("model_type") /\ ~Passed("model_type")
====
